---- MODULE Spec2Model ----
(***************************************************************************)
(* Model of src/src/openApiGenerator.ts: the Vite plugin that scans a      *)
(* directory for OpenAPI YAML documents and writes, per document, one DTO  *)
(* file per schema, an index file and a URL-building client class.         *)
(*                                                                         *)
(* Representation.                                                         *)
(*  - A JavaScript string the code works on character by character (path   *)
(*    templates, method keys, operation ids, file names) is a sequence of   *)
(*    one-character strings. Schema and property names, which the code     *)
(*    only copies, are TLA+ strings.                                       *)
(*  - A JavaScript object is a sequence of <<key, value>> pairs in         *)
(*    Object.entries order; a record field that is absent is a field that  *)
(*    is not in the DOMAIN of the record; null is the record NullNode.     *)
(*  - A "$ref" string is the sequence of its "/"-separated parts, so that  *)
(*    split("/").pop() is the last element.                                *)
(*  - A thrown exception is the value Throw.                               *)
(***************************************************************************)
EXTENDS Naturals, Sequences, FiniteSets, TLC

\* ------------------------------------------------------------------ bounds

\* Most documents a scan finds.
MaxDocs == 2
\* Most segments of a path template the client specification enumerates.
MaxSegs == 3
\* Most parts of an allOf, and most properties of a plain schema, the DTO
\* specification enumerates.
MaxParts == 2

\* ----------------------------------------------------------------- strings

LowerChars == <<"a", "b", "c", "d", "e", "g", "h", "i", "l", "n", "o", "p", "r", "s", "t", "u", "x", "y">>
UpperChars == <<"A", "B", "C", "D", "E", "G", "H", "I", "L", "N", "O", "P", "R", "S", "T", "U", "X", "Y">>
DigitChars == {"0", "1", "2"}

Range(s) == {s[i] : i \in DOMAIN s}

\* The position of x in s (0 when absent).
IndexOf(s, x) == IF \E i \in DOMAIN s : s[i] = x
                 THEN CHOOSE i \in DOMAIN s : s[i] = x /\ \A j \in 1..(i - 1) : s[j] # x
                 ELSE 0

\* String.prototype.toUpperCase on one character.
ToUpperChar(c) == IF IndexOf(LowerChars, c) > 0 THEN UpperChars[IndexOf(LowerChars, c)] ELSE c
\* String.prototype.toLowerCase on one character.
ToLowerChar(c) == IF IndexOf(UpperChars, c) > 0 THEN LowerChars[IndexOf(UpperChars, c)] ELSE c

toUpperCase(str) == [i \in DOMAIN str |-> ToUpperChar(str[i])]
toLowerCase(str) == [i \in DOMAIN str |-> ToLowerChar(str[i])]

\* The class [a-zA-Z0-9].
IsAlnum(c) == c \in Range(LowerChars) \cup Range(UpperChars) \cup DigitChars
\* The class [-_\s].
IsSeparator(c) == c \in {"-", "_", " "}

\* str.slice(i) with a 0-based start.
Slice(str, i) == SubSeq(str, i + 1, Len(str))

RECURSIVE Flatten(_)
Flatten(ss) == IF ss = <<>> THEN <<>> ELSE Head(ss) \o Flatten(Tail(ss))

\* replace(/[^a-zA-Z0-9]/g, "")
StripNonAlnum(str) == SelectSeq(str, IsAlnum)

\* The length of the run of [-_\s] characters that starts at position i.
RECURSIVE SeparatorRun(_, _)
SeparatorRun(str, i) ==
    IF i <= Len(str) /\ IsSeparator(str[i]) THEN 1 + SeparatorRun(str, i + 1) ELSE 0

\* replace(/[-_\s]+(.)/g, (_, char) => char.toUpperCase()), scanning from
\* position i. A run that reaches the end of the string gives its last
\* character back to the group (backtracking); a run of one at the end does
\* not match and is copied.
RECURSIVE UpperAfterSeparators(_, _)
UpperAfterSeparators(str, i) ==
    IF i > Len(str) THEN <<>>
    ELSE LET run == SeparatorRun(str, i)
         IN  IF run = 0 THEN <<str[i]>> \o UpperAfterSeparators(str, i + 1)
             ELSE IF i + run <= Len(str)
                  THEN <<ToUpperChar(str[i + run])>> \o UpperAfterSeparators(str, i + run + 1)
             ELSE IF run >= 2
                  THEN <<ToUpperChar(str[Len(str)])>>
             ELSE <<str[i]>>

camelCase(str) ==
    IF str = <<>> THEN <<>>
    ELSE <<ToLowerChar(str[1])>> \o StripNonAlnum(UpperAfterSeparators(Slice(str, 1), 1))

pascalCase(str) ==
    LET camelCased == camelCase(str)
    IN  IF camelCased = <<>> THEN <<>>
        ELSE <<ToUpperChar(camelCased[1])>> \o Slice(camelCased, 1)

\* ------------------------------------------------------ operation analysis

\* The position of the first "}" at or after position i (0 when none).
RECURSIVE NextClose(_, _)
NextClose(str, i) ==
    IF i > Len(str) THEN 0
    ELSE IF str[i] = "}" THEN i
    ELSE NextClose(str, i + 1)

\* The matches of /\{([^}]+)\}/g from position i, each as <<from, to>>: a "{"
\* followed by at least one character other than "}" and then a "}".
RECURSIVE TokenMatches(_, _)
TokenMatches(str, i) ==
    IF i > Len(str) THEN <<>>
    ELSE IF str[i] = "{" /\ NextClose(str, i + 1) > i + 1
         THEN <<<<i, NextClose(str, i + 1)>>>> \o TokenMatches(str, NextClose(str, i + 1) + 1)
    ELSE TokenMatches(str, i + 1)

extractPathParameters(pathTemplate) ==
    LET matches == TokenMatches(pathTemplate, 1)
    IN  [k \in DOMAIN matches |-> SubSeq(pathTemplate, matches[k][1] + 1, matches[k][2] - 1)]

\* path.replace(/\{[^}]+\}/g, "By") from position i.
RECURSIVE ReplaceTokensBy(_, _)
ReplaceTokensBy(str, i) ==
    IF i > Len(str) THEN <<>>
    ELSE IF str[i] = "{" /\ NextClose(str, i + 1) > i + 1
         THEN <<"B", "y">> \o ReplaceTokensBy(str, NextClose(str, i + 1) + 1)
    ELSE <<str[i]>> \o ReplaceTokensBy(str, i + 1)

generateOperationId(method, path) ==
    LET cleanPath == StripNonAlnum(ReplaceTokensBy(path, 1))
    IN  cleanPath

\* ------------------------------------------------------- JavaScript values

NullNode == [null |-> TRUE]
IsNull(v) == "null" \in DOMAIN v
Has(o, f) == f \in DOMAIN o
\* A field that holds an object or an array is truthy unless absent or null.
HasNode(o, f) == Has(o, f) /\ ~IsNull(o[f])
\* A "$ref" field is truthy unless absent or the empty string.
HasRef(o) == Has(o, "$ref") /\ o["$ref"] # <<"">>

\* An object with its entries in Object.entries order.
Obj(entries) == [entries |-> entries]
Values(o) == [i \in DOMAIN o.entries |-> o.entries[i][2]]

\* The outcome of a call: a returned value, or a thrown exception.
Ok(v) == [ok |-> TRUE, value |-> v]
Throw == [ok |-> FALSE]

\* The values of a sequence of outcomes, or Throw when one of them threw.
AllOk(rs) == IF \A i \in DOMAIN rs : rs[i].ok
             THEN Ok([i \in DOMAIN rs |-> rs[i].value])
             ELSE Throw

\* Array.prototype.join on strings.
RECURSIVE Join(_, _)
Join(ss, sep) == IF ss = <<>> THEN ""
                 ELSE IF Len(ss) = 1 THEN ss[1]
                 ELSE ss[1] \o sep \o Join(Tail(ss), sep)

\* Set.prototype.add on an insertion-ordered set.
SetAdd(set, x) == IF x \in Range(set) THEN set ELSE Append(set, x)
RECURSIVE SetAddAll(_, _)
SetAddAll(set, xs) == IF xs = <<>> THEN set ELSE SetAddAll(SetAdd(set, Head(xs)), Tail(xs))

\* One property written into an object: an existing key keeps its place and
\* takes the new value, a new key goes last.
Put(entries, kv) ==
    IF \E i \in DOMAIN entries : entries[i][1] = kv[1]
    THEN [i \in DOMAIN entries |-> IF entries[i][1] = kv[1] THEN kv ELSE entries[i]]
    ELSE Append(entries, kv)

\* Object.assign(target, source) on the entries.
RECURSIVE ObjectAssign(_, _)
ObjectAssign(target, source) ==
    IF source = <<>> THEN target ELSE ObjectAssign(Put(target, Head(source)), Tail(source))

\* ref.split("/").pop()
RefName(ref) == ref[Len(ref)]

\* ----------------------------------------------------------- type resolver

\* One enum literal: a string is quoted, anything else is printed as is.
EnumLiteral(v) == IF v.isString THEN "'" \o v.text \o "'" ELSE v.text

EnumUnion(values) == Join([i \in DOMAIN values |-> EnumLiteral(values[i])], " | ")

RECURSIVE getTypeScriptType(_)
getTypeScriptType(schema) ==
    IF IsNull(schema) THEN Throw
    ELSE IF HasRef(schema)
         THEN Ok(IF RefName(schema["$ref"]) # "" THEN RefName(schema["$ref"]) ELSE "any")
    ELSE IF Has(schema, "enum") THEN Ok(EnumUnion(schema.enum))
    ELSE IF ~Has(schema, "type") THEN Ok("any")
    ELSE IF schema.type = "string"
         THEN Ok(IF Has(schema, "format") /\ schema.format \in {"date-time", "date"}
                 THEN "Date" ELSE "string")
    ELSE IF schema.type \in {"number", "integer"} THEN Ok("number")
    ELSE IF schema.type = "boolean" THEN Ok("boolean")
    ELSE IF schema.type = "array"
         THEN IF HasNode(schema, "items")
              THEN LET item == getTypeScriptType(schema.items)
                   IN  IF item.ok THEN Ok(item.value \o "[]") ELSE Throw
              ELSE Ok("any[]")
    ELSE IF schema.type = "object"
         THEN IF HasNode(schema, "properties")
              THEN LET es == schema.properties.entries
                       ts == AllOk([i \in DOMAIN es |-> getTypeScriptType(es[i][2])])
                   IN  IF ts.ok
                       THEN Ok("{ " \o Join([i \in DOMAIN es |-> es[i][1] \o ": " \o ts.value[i]], "; ") \o " }")
                       ELSE Throw
              ELSE Ok("Record<string, any>")
    ELSE Ok("any")

\* collectRefs of generateDTOType: the names it adds to usedRefs, in the
\* order it adds them, for the schema named name.
RECURSIVE collectRefs(_, _)
collectRefs(propSchema, name) ==
    IF IsNull(propSchema) THEN Throw
    ELSE LET own == IF HasRef(propSchema) /\ RefName(propSchema["$ref"]) # ""
                       /\ RefName(propSchema["$ref"]) # name
                    THEN <<RefName(propSchema["$ref"])>> ELSE <<>>
             items == IF Has(propSchema, "type") /\ propSchema.type = "array"
                         /\ HasNode(propSchema, "items")
                      THEN collectRefs(propSchema.items, name) ELSE Ok(<<>>)
             props == IF Has(propSchema, "type") /\ propSchema.type = "object"
                         /\ HasNode(propSchema, "properties")
                      THEN LET vs == Values(propSchema.properties)
                               rs == AllOk([i \in DOMAIN vs |-> collectRefs(vs[i], name)])
                           IN  IF rs.ok THEN Ok(Flatten(rs.value)) ELSE Throw
                      ELSE Ok(<<>>)
         IN  IF items.ok /\ props.ok THEN Ok(own \o items.value \o props.value) ELSE Throw

\* ------------------------------------------------------------- DTO emitter

Required(o) == IF Has(o, "required") THEN Range(o.required) ELSE {}

\* An allOf part that is merged as an inline object (line 163).
IsInlinePart(part) ==
    ~HasRef(part) /\ Has(part, "type") /\ part.type = "object" /\ HasNode(part, "properties")

\* An allOf part that names a base (lines 157-162).
IsBasePart(part) == HasRef(part) /\ RefName(part["$ref"]) # ""

\* The inheritance list: the names of the $ref parts, in encounter order.
Inheritance(allOf) ==
    LET bases == SelectSeq(allOf, IsBasePart)
    IN  [i \in DOMAIN bases |-> RefName(bases[i]["$ref"])]

\* The properties object of the schema: the inline parts of an allOf merged
\* in order, and the schema's own properties otherwise.
RECURSIVE MergeParts(_, _)
MergeParts(properties, parts) ==
    IF parts = <<>> THEN properties
    ELSE MergeParts(IF IsInlinePart(Head(parts))
                    THEN ObjectAssign(properties, Head(parts).properties.entries)
                    ELSE properties,
                    Tail(parts))

PropertiesOf(schema) ==
    IF Has(schema, "allOf") THEN MergeParts(<<>>, schema.allOf)
    ELSE IF HasNode(schema, "properties") THEN schema.properties.entries
    ELSE <<>>

\* A bug the code does not have: the enclosing schema's required list and
\* the lists of the other inline parts are left out of an allOf's set.
RequiredPropsNoMerge(schema) ==
    IF Has(schema, "allOf")
    THEN IF \E i \in DOMAIN schema.allOf : IsInlinePart(schema.allOf[i])
         THEN Required(schema.allOf[CHOOSE i \in DOMAIN schema.allOf :
                                        /\ IsInlinePart(schema.allOf[i])
                                        /\ \A j \in 1..(i - 1) : ~IsInlinePart(schema.allOf[j])])
         ELSE {}
    ELSE Required(schema)

\* requiredProps: the schema's own required list, and for an allOf the list
\* of every inline part as well.
RequiredProps(schema) ==
    Required(schema) \cup
    (IF Has(schema, "allOf")
     THEN UNION {Required(schema.allOf[i]) :
                    i \in {j \in DOMAIN schema.allOf : IsInlinePart(schema.allOf[j])}}
     ELSE {})

\* usedRefs after the allOf loop: the base names, self included.
BaseRefs(schema) ==
    IF Has(schema, "allOf") THEN SetAddAll(<<>>, Inheritance(schema.allOf)) ELSE <<>>

generateDTOType(name, schema) ==
    IF IsNull(schema) THEN Throw
    ELSE IF Has(schema, "enum")
         THEN Ok([kind |-> "alias", name |-> name, union |-> EnumUnion(schema.enum)])
    ELSE IF Has(schema, "allOf") /\ \E i \in DOMAIN schema.allOf : IsNull(schema.allOf[i])
         THEN Throw
    ELSE LET properties == PropertiesOf(schema)
             requiredProps == RequiredProps(schema)
             collected == AllOk([i \in DOMAIN properties |-> collectRefs(properties[i][2], name)])
             types == AllOk([i \in DOMAIN properties |-> getTypeScriptType(properties[i][2])])
         IN  IF ~collected.ok \/ ~types.ok THEN Throw
             ELSE Ok([kind |-> "interface",
                      imports |-> SetAddAll(BaseRefs(schema), Flatten(collected.value)),
                      name |-> name,
                      extends |-> IF Has(schema, "allOf") THEN Inheritance(schema.allOf) ELSE <<>>,
                      props |-> [i \in DOMAIN properties |->
                                   [name |-> properties[i][1],
                                    optional |-> properties[i][1] \notin requiredProps,
                                    type |-> types.value[i]]]])

\* The line generateDTOs pushes to dtoExports for one schema.
ExportLine(schemaName) == "export type { " \o schemaName \o " } from './" \o schemaName \o "';"

\* ------------------------------------------------------ client synthesizer

get == <<"g", "e", "t">>
post == <<"p", "o", "s", "t">>
put == <<"p", "u", "t">>
delete == <<"d", "e", "l", "e", "t", "e">>
patch == <<"p", "a", "t", "c", "h">>

HttpMethods == {get, post, put, delete, patch}

\* A bug the code does not have: the key is compared as written.
IsHttpMethodExact(method) == method \in HttpMethods

\* ["get", "post", "put", "delete", "patch"].includes(method.toLowerCase())
IsHttpMethod(method) == toLowerCase(method) \in HttpMethods

extractQueryParameters(operation) ==
    LET parameters == IF Has(operation, "parameters") THEN operation.parameters ELSE <<>>
        isQuery(param) == Has(param, "in") /\ param["in"] = "query"
        query == SelectSeq(parameters, isQuery)
    IN  [i \in DOMAIN query |-> query[i].name]

\* The operation identifier of line 281: the operationId unless it is absent
\* or empty, and the identifier derived from the path otherwise.
OperationIdOf(method, pathTemplate, operation) ==
    IF Has(operation, "operationId") /\ operation.operationId # <<>>
    THEN operation.operationId
    ELSE generateOperationId(method, pathTemplate)

MethodName(method, pathTemplate, operation) ==
    method \o pascalCase(OperationIdOf(method, pathTemplate, operation))

\* One generated method (lines 281-348): its name, its documentation
\* summary line, its signature parameters in order, the {token} replacements
\* of its body in order, and the path it starts from.
GeneratedMethod(pathTemplate, method, operation) ==
    LET methodName == MethodName(method, pathTemplate, operation)
        pathParams == extractPathParameters(pathTemplate)
        queryParams == extractQueryParameters(operation)
    IN  [name |-> methodName,
         summary |-> IF Has(operation, "summary") /\ operation.summary # <<>>
                     THEN operation.summary
                     ELSE toUpperCase(method) \o <<" ">> \o pathTemplate,
         pathParams |-> pathParams,
         signature |-> [i \in DOMAIN pathParams |->
                          [param |-> pathParams[i], type |-> "string | number", keys |-> <<>>]]
                       \o (IF Len(queryParams) > 0
                           THEN <<[param |-> <<"queryParams">>, type |-> "object?", keys |-> queryParams]>>
                           ELSE <<>>),
         replaces |-> pathParams,
         pathTemplate |-> pathTemplate]

\* The methods of one path item, in entry order; Throw when an operation
\* under an accepted key is null.
MethodsOfPathItem(pathTemplate, pathItem) ==
    IF IsNull(pathItem) THEN Throw
    ELSE LET isAccepted(e) == IsHttpMethod(e[1])
             accepted == SelectSeq(pathItem.entries, isAccepted)
         IN  IF \E i \in DOMAIN accepted : IsNull(accepted[i][2]) THEN Throw
             ELSE Ok([i \in DOMAIN accepted |->
                        GeneratedMethod(pathTemplate, accepted[i][1], accepted[i][2])])

\* The content generateClientClass writes, or Throw (nothing is written
\* before the loops are over).
generateClientClass(fileInfo) ==
    IF IsNull(fileInfo.spec) \/ ~HasNode(fileInfo.spec, "paths") THEN Throw
    ELSE LET paths == fileInfo.spec.paths.entries
             perPath == AllOk([i \in DOMAIN paths |-> MethodsOfPathItem(paths[i][1], paths[i][2])])
         IN  IF ~perPath.ok THEN Throw
             ELSE Ok([kind |-> "client",
                      className |-> fileInfo.className,
                      baseUrl |-> fileInfo.baseUrl,
                      methods |-> Flatten(perPath.value)])

\* ------------------------------------------------------------- file system

\* path.join on paths kept as sequences of components.
PathJoin(dir, name) == Append(dir, name)

\* A bug the code does not have: appendFile in place of writeFile.
AppendFile(files, path, content) ==
    (path :> (IF path \in DOMAIN files THEN <<files[path], content>> ELSE content)) @@ files

\* fs.writeFile: the file is created or replaced.
WriteFile(files, path, content) == (path :> content) @@ files

\* ---------------------------------------------------------------- the scan

RECURSIVE SetToSeq(_)
SetToSeq(set) == IF set = {} THEN <<>>
                 ELSE LET x == CHOOSE x \in set : TRUE IN <<x>> \o SetToSeq(set \ {x})

Parent(path) == SubSeq(path, 1, Len(path) - 1)
BaseName(path) == path[Len(path)]

\* What readdir lists in dir beside the entries of the tree: the directories
\* and the files earlier runs created there. Every file the generator writes
\* is named "<something>.ts" (lines 110, 130, 138).
CreatedEntries(dir, madeDirs, written) ==
    SetToSeq({[name |-> BaseName(d), isDirectory |-> TRUE, isFile |-> FALSE, node |-> [entries |-> <<>>]] :
                 d \in {x \in madeDirs : Parent(x) = dir}})
    \o SetToSeq({[name |-> BaseName(f), isDirectory |-> FALSE, isFile |-> TRUE, ext |-> ".ts"] :
                 f \in {x \in DOMAIN written : Parent(x) = dir}})

\* A bug the code does not have: a directory that cannot be listed is
\* skipped, and the scan goes on with the files found elsewhere.
RECURSIVE walkSkipping(_, _, _, _, _)
walkSkipping(dir, node, badPaths, madeDirs, written) ==
    IF dir \in badPaths THEN Ok(<<>>)
    ELSE LET entries == node.entries \o CreatedEntries(dir, madeDirs, written)
             found(entry) ==
                 LET fullPath == PathJoin(dir, entry.name)
                 IN  IF entry.isDirectory
                     THEN walkSkipping(fullPath, entry.node, badPaths, madeDirs, written)
                     ELSE IF entry.isFile /\ entry.ext \in {".yml", ".yaml"}
                          THEN Ok(<<[path |-> fullPath, dir |-> dir, entry |-> entry]>>)
                     ELSE Ok(<<>>)
             all == AllOk([i \in DOMAIN entries |-> found(entries[i])])
         IN  IF all.ok THEN Ok(Flatten(all.value)) ELSE Throw

\* walk(dir): the YAML files under dir in the order readdir lists them,
\* depth first, or Throw when a readdir on the way fails.
RECURSIVE walk(_, _, _, _, _)
walk(dir, node, badPaths, madeDirs, written) ==
    IF dir \in badPaths THEN Throw
    ELSE LET entries == node.entries \o CreatedEntries(dir, madeDirs, written)
             found(entry) ==
                 LET fullPath == PathJoin(dir, entry.name)
                 IN  IF entry.isDirectory
                     THEN walk(fullPath, entry.node, badPaths, madeDirs, written)
                     ELSE IF entry.isFile /\ entry.ext \in {".yml", ".yaml"}
                          THEN Ok(<<[path |-> fullPath, dir |-> dir, entry |-> entry]>>)
                     ELSE Ok(<<>>)
             all == AllOk([i \in DOMAIN entries |-> found(entries[i])])
         IN  IF all.ok THEN Ok(Flatten(all.value)) ELSE Throw

\* ------------------------------------------------------ documents of a run

RefTo(name) == "$ref" :> <<"#", "components", "schemas", name>>

UserSchema ==
    [type |-> "object",
     properties |-> Obj(<< <<"id", [type |-> "string"]>>,
                           <<"role", RefTo("Role")>>,
                           <<"friends", [type |-> "array", items |-> RefTo("User")]>> >>),
     required |-> <<"id">>]

RoleSchema == [enum |-> <<[isString |-> TRUE, text |-> "admin"], [isString |-> FALSE, text |-> "1"]>>]

\* A schema one of whose properties is null ("name:" with no value).
NullPropertySchema ==
    [type |-> "object", properties |-> Obj(<< <<"name", NullNode>> >>)]

UsersPaths ==
    Obj(<< <<(<<"/", "u", "s", "e", "r", "s">>),
             Obj(<< <<get, [parameters |-> <<[name |-> <<"l", "i", "m", "i", "t">>, in |-> "query"]>>]>> >>)>>,
           <<(<<"/", "u", "s", "e", "r", "s", "/", "{", "i", "d", "}">>),
             Obj(<< <<get, [operationId |-> <<"g", "e", "t", "U", "s", "e", "r">>]>>,
                    <<(<<"o", "p", "t", "i", "o", "n", "s">>), NullNode>> >>)>> >>)

Servers == <<[url |-> "https://api.example/"]>>

\* The documents yaml.load can return for a file, each with the path (if
\* any) the file system rejects while the document is processed.
DocKinds ==
    {"healthy", "noSchemas", "empty", "yamlError", "nullSchema", "nullProperty", "noPaths",
     "readFails", "mkdirFails", "dtoWriteFails", "indexWriteFails", "clientWriteFails"}

\* What yaml.load returns, or Throw for a YAMLException.
Parsed(kind) ==
    CASE kind = "yamlError" -> Throw
      [] kind = "empty" -> Ok(NullNode)
      [] kind = "noSchemas" -> Ok([servers |-> Servers, paths |-> UsersPaths])
      [] kind = "noPaths" ->
            Ok([components |-> [schemas |-> Obj(<< <<"User", UserSchema>>, <<"Role", RoleSchema>> >>)]])
      [] kind = "nullSchema" ->
            Ok([paths |-> UsersPaths,
                components |-> [schemas |-> Obj(<< <<"User", UserSchema>>, <<"Broken", NullNode>>,
                                                   <<"Role", RoleSchema>> >>)]])
      [] kind = "nullProperty" ->
            Ok([paths |-> UsersPaths,
                components |-> [schemas |-> Obj(<< <<"Role", RoleSchema>>, <<"Named", NullPropertySchema>>,
                                                   <<"User", UserSchema>> >>)]])
      [] OTHER ->
            Ok([servers |-> Servers, paths |-> UsersPaths,
                components |-> [schemas |-> Obj(<< <<"User", UserSchema>>, <<"Role", RoleSchema>> >>)]])

DocBases == << <<"u", "s", "e", "r", "s", "-", "a", "p", "i">>,
               <<"a", "u", "t", "h", "_", "a", "p", "i">>,
               <<"s", "h", "o", "p">>,
               <<"o", "p", "s">> >>
DocNames == <<"users-api.yml", "auth_api.yaml", "shop.yml", "ops.yaml">>
DocExts == <<".yml", ".yaml", ".yml", ".yaml">>
DirNames == <<"users", "auth", "shop", "ops", "misc">>

sourceDir == <<"src">>

FileEntry(i, kind) ==
    [name |-> DocNames[i], base |-> DocBases[i], ext |-> DocExts[i],
     isDirectory |-> FALSE, isFile |-> TRUE, kind |-> kind]

OtherEntry == [name |-> "README.md", base |-> <<>>, ext |-> ".md",
               isDirectory |-> FALSE, isFile |-> TRUE, kind |-> "none"]

\* The directory at a level of the chain src/users/auth/...
RECURSIVE DirAt(_)
DirAt(level) == IF level = 0 THEN sourceDir ELSE PathJoin(DirAt(level - 1), DirNames[level])

\* The tree under the directory at a level. Layout "flat" keeps every
\* document in the root, beside an empty subdirectory; layout "nested"
\* puts document i in the directory at level i.
RECURSIVE NodeAt(_, _, _)
NodeAt(level, layout, kinds) ==
    LET depth == IF layout = "flat" THEN 1 ELSE Len(kinds)
        files == IF layout = "flat"
                 THEN IF level = 0 THEN [i \in DOMAIN kinds |-> FileEntry(i, kinds[i])] ELSE <<>>
                 ELSE IF level >= 1 THEN <<FileEntry(level, kinds[level])>> ELSE <<>>
        sub == IF level < depth
               THEN <<[name |-> DirNames[level + 1], isDirectory |-> TRUE, isFile |-> FALSE,
                       node |-> NodeAt(level + 1, layout, kinds)]>>
               ELSE <<>>
    IN  [entries |-> IF layout = "flat" THEN sub \o <<OtherEntry>> \o files
                     ELSE files \o <<OtherEntry>> \o sub]

\* The paths one document's processing touches.
generatedDir(file) == PathJoin(file.dir, "generated")
dtoDir(file) == PathJoin(generatedDir(file), "models")
DtoPath(file, schemaName) == PathJoin(dtoDir(file), schemaName \o ".ts")
IndexPath(file) == PathJoin(dtoDir(file), "index.ts")
ClientPath(file) == PathJoin(generatedDir(file), "openApi.ts")

\* The path the file system rejects for a document of a kind.
BadPathOf(dir, i, kind) ==
    LET file == [dir |-> dir, path |-> PathJoin(dir, DocNames[i])]
    IN  CASE kind = "readFails" -> {file.path}
          [] kind = "mkdirFails" -> {dtoDir(file)}
          [] kind = "dtoWriteFails" -> {DtoPath(file, "User")}
          [] kind = "indexWriteFails" -> {IndexPath(file)}
          [] kind = "clientWriteFails" -> {ClientPath(file)}
          [] OTHER -> {}

\* ------------------------------------------------------------------- state

VARIABLES
    tree,           \* the directory tree under sourceDir
    badPaths,       \* the paths on which the file system rejects a call
    pc,             \* "idle", "doc" (inside the loop over documents), "done"
    yamlFilePaths,  \* what walk returned
    idx,            \* the loop's position in yamlFilePaths
    stage,          \* the await the current document is at
    k,              \* the position of generateDTOs in the schemas
    files,          \* the files written so far: path -> content
    dirs,           \* the directories created so far
    trace,          \* the file system calls of this run, in order
    console,        \* what this run reported, in order
    run,            \* how many times buildStart has been invoked
    prevFiles,      \* the files as the previous run left them
    prevTrace,      \* the file system calls of the previous run
    input,          \* the argument of a generator function applied on its own
    output          \* its outcome

vars == <<tree, badPaths, pc, yamlFilePaths, idx, stage, k, files, dirs, trace, console,
          run, prevFiles, prevTrace, input, output>>

runVars == <<pc, yamlFilePaths, idx, stage, k, files, dirs, trace, console, run, prevFiles, prevTrace>>

NoFiles == [p \in {} |-> {}]
NoValue == [none |-> TRUE]

Message(level, text, about) == [level |-> level, text |-> text, about |-> about]
\* One file system call: what was called on which path while which document
\* was processed, whether it succeeded, and for a writeFile what was written.
Call(op, path, ok, content) == [op |-> op, path |-> path, doc |-> idx, ok |-> ok, content |-> content]

\* The document the loop is at.
File == yamlFilePaths[idx]
SpecOf(file) == Parsed(file.entry.kind)
\* spec.components?.schemas || {}
AllSchemas(spec) ==
    IF Has(spec, "components") /\ HasNode(spec.components, "schemas")
    THEN spec.components.schemas.entries ELSE <<>>
\* spec.servers?.[0]?.url ?? ""
BaseUrl(spec) == IF Has(spec, "servers") /\ Len(spec.servers) > 0 THEN spec.servers[1].url ELSE ""
FileInfo(file) ==
    [fileName |-> file.entry.base,
     className |-> pascalCase(file.entry.base) \o <<"C", "l", "i", "e", "n", "t">>,
     baseUrl |-> BaseUrl(SpecOf(file).value),
     spec |-> SpecOf(file).value]

\* The loop moves to the next document, or past the last one to line 119.
NextDocument(reported) ==
    /\ console' = console \o reported \o
                  (IF idx = Len(yamlFilePaths)
                   THEN <<Message("log", "Generation terminee", sourceDir)>> ELSE <<>>)
    /\ pc' = IF idx = Len(yamlFilePaths) THEN "done" ELSE "doc"
    /\ idx' = idx + 1
    /\ stage' = "read"
    /\ k' = 0

\* A bug the code does not have: the document's error ends the loop, as if
\* the inner try were missing and the outer catch took it.
FailDocumentAbort ==
    /\ console' = Append(console, Message("error", "Erreur lors du scan", sourceDir))
    /\ pc' = "done"
    /\ UNCHANGED <<idx, stage, k>>

\* The catch of lines 114-116: the error is reported and the loop goes on.
FailDocument == NextDocument(<<Message("error", "Erreur lors du traitement", File.path)>>)

\* walk and lines 67-76, from the first readdir to the first readFile.
StartRun ==
    LET found == walk(sourceDir, tree, badPaths, dirs, files)
    IN  /\ trace' = <<>>
        /\ idx' = 1
        /\ stage' = "read"
        /\ k' = 0
        /\ IF ~found.ok
           THEN /\ yamlFilePaths' = <<>>
                /\ console' = <<Message("error", "Erreur lors du scan", sourceDir)>>
                /\ pc' = "done"
           ELSE /\ yamlFilePaths' = found.value
                /\ IF Len(found.value) = 0
                   THEN /\ console' = <<Message("log", "Aucun fichier YAML", sourceDir)>>
                        /\ pc' = "done"
                   ELSE /\ console' = <<Message("log", "fichier(s) OpenAPI", sourceDir)>>
                        /\ pc' = "doc"

\* The build hook calls generateFromOpenAPIFiles.
BuildStart ==
    /\ pc = "idle"
    /\ StartRun
    /\ run' = 1
    /\ UNCHANGED <<tree, badPaths, files, dirs, prevFiles, prevTrace, input, output>>

\* The next build session calls it again, on the files the run left.
BuildStartAgain ==
    /\ pc = "done"
    /\ run = 1
    /\ StartRun
    /\ run' = 2
    /\ prevFiles' = files
    /\ prevTrace' = trace
    /\ UNCHANGED <<tree, badPaths, files, dirs, input, output>>

\* Lines 79-89: readFile, yaml.load and the names, up to the mkdir.
ReadDocument ==
    /\ pc = "doc" /\ stage = "read"
    /\ LET failed == File.path \in badPaths
       IN  /\ trace' = Append(trace, Call("readFile", File.path, ~failed, NoValue))
           /\ IF failed \/ ~SpecOf(File).ok \/ IsNull(SpecOf(File).value)
              THEN FailDocument
              ELSE /\ stage' = "mkdir"
                   /\ UNCHANGED <<pc, idx, k, console>>
    /\ UNCHANGED <<tree, badPaths, yamlFilePaths, files, dirs, run, prevFiles, prevTrace, input, output>>

\* Lines 91-96: mkdir(dtoDir, recursive) and the choice between the DTOs
\* and the client.
MakeDirectory ==
    /\ pc = "doc" /\ stage = "mkdir"
    /\ LET failed == dtoDir(File) \in badPaths \/ generatedDir(File) \in badPaths
       IN  /\ trace' = Append(trace, Call("mkdir", dtoDir(File), ~failed, NoValue))
           /\ IF failed
              THEN FailDocument /\ UNCHANGED dirs
              ELSE /\ dirs' = dirs \cup {generatedDir(File), dtoDir(File)}
                   /\ stage' = IF Len(AllSchemas(SpecOf(File).value)) > 0 THEN "dto" ELSE "client"
                   /\ k' = IF Len(AllSchemas(SpecOf(File).value)) > 0 THEN 1 ELSE 0
                   /\ UNCHANGED <<pc, idx, console>>
    /\ UNCHANGED <<tree, badPaths, yamlFilePaths, files, run, prevFiles, prevTrace, input, output>>

\* The index file: one re-export line per schema, in the schemas' order.
IndexContent(schemas) ==
    [kind |-> "index", lines |-> [i \in DOMAIN schemas |-> ExportLine(schemas[i][1])]]

\* A bug the code does not have: the schemas are taken last to first.
SchemaAtReversed(schemas, i) == schemas[Len(schemas) + 1 - i]

\* The entry of Object.entries(schemas) the loop of line 128 is at.
SchemaAt(schemas, i) == schemas[i]

\* One turn of the loop of generateDTOs (lines 128-134): generateDTOType,
\* then writeFile.
WriteDTO ==
    /\ pc = "doc" /\ stage = "dto"
    /\ LET schemas == AllSchemas(SpecOf(File).value)
           schemaName == SchemaAt(schemas, k)[1]
           dtoContent == generateDTOType(schemaName, SchemaAt(schemas, k)[2])
           path == DtoPath(File, schemaName)
       IN  IF ~dtoContent.ok
           THEN FailDocument /\ UNCHANGED <<trace, files>>
           ELSE /\ trace' = Append(trace, Call("writeFile", path, path \notin badPaths, dtoContent.value))
                /\ IF path \in badPaths
                   THEN FailDocument /\ UNCHANGED files
                   ELSE /\ files' = WriteFile(files, path, dtoContent.value)
                        /\ stage' = IF k = Len(schemas) THEN "index" ELSE "dto"
                        /\ k' = IF k = Len(schemas) THEN 0 ELSE k + 1
                        /\ UNCHANGED <<pc, idx, console>>
    /\ UNCHANGED <<tree, badPaths, yamlFilePaths, dirs, run, prevFiles, prevTrace, input, output>>

\* Lines 137-138 and 98: the index file, then the report of the DTOs.
WriteIndex ==
    /\ pc = "doc" /\ stage = "index"
    /\ LET schemas == AllSchemas(SpecOf(File).value)
           path == IndexPath(File)
       IN  /\ trace' = Append(trace, Call("writeFile", path, path \notin badPaths, IndexContent(schemas)))
           /\ IF path \in badPaths
              THEN FailDocument /\ UNCHANGED files
              ELSE /\ files' = WriteFile(files, path, IndexContent(schemas))
                   /\ stage' = "client"
                   /\ console' = Append(console, Message("log", "DTO(s) generes", File.path))
                   /\ UNCHANGED <<pc, idx, k>>
    /\ UNCHANGED <<tree, badPaths, yamlFilePaths, dirs, run, prevFiles, prevTrace, input, output>>

\* Lines 102-113: generateClientClass and its writeFile, then the report.
WriteClient ==
    /\ pc = "doc" /\ stage = "client"
    /\ LET clientContent == generateClientClass(FileInfo(File))
           path == ClientPath(File)
       IN  IF ~clientContent.ok
           THEN FailDocument /\ UNCHANGED <<trace, files>>
           ELSE /\ trace' = Append(trace, Call("writeFile", path, path \notin badPaths, clientContent.value))
                /\ IF path \in badPaths
                   THEN FailDocument /\ UNCHANGED files
                   ELSE /\ files' = WriteFile(files, path, clientContent.value)
                        /\ NextDocument(<<Message("log", "Client genere", File.path)>>)
    /\ UNCHANGED <<tree, badPaths, yamlFilePaths, dirs, run, prevFiles, prevTrace, input, output>>

\* ------------------------------------------------------------ specification

Layouts == {"flat", "nested"}

\* The sequences of at most n document kinds.
RECURSIVE KindSeqs(_)
KindSeqs(n) ==
    IF n = 0 THEN {<<>>}
    ELSE KindSeqs(n - 1) \cup {Append(ks, kind) : ks \in {x \in KindSeqs(n - 1) : Len(x) = n - 1},
                                                 kind \in DocKinds}

\* The directory document i of a layout is in.
DocDir(layout, i) == IF layout = "flat" THEN sourceDir ELSE DirAt(i)

\* The directories of a layout's tree.
TreeDirs(layout, kinds) ==
    {DirAt(level) : level \in 0..(IF layout = "flat" THEN 1 ELSE Len(kinds))}

Init ==
    /\ \E layout \in Layouts, kinds \in KindSeqs(MaxDocs) :
         /\ tree = NodeAt(0, layout, kinds)
         /\ \E unreadable \in {{}} \cup {{d} : d \in TreeDirs(layout, kinds)} :
              badPaths = unreadable \cup
                         UNION {BadPathOf(DocDir(layout, i), i, kinds[i]) : i \in DOMAIN kinds}
    /\ pc = "idle"
    /\ yamlFilePaths = <<>>
    /\ idx = 1
    /\ stage = "read"
    /\ k = 0
    /\ files = NoFiles
    /\ dirs = {}
    /\ trace = <<>>
    /\ console = <<>>
    /\ run = 0
    /\ prevFiles = NoFiles
    /\ prevTrace = <<>>
    /\ input = NoValue
    /\ output = NoValue

Next ==
    \/ BuildStart
    \/ ReadDocument
    \/ MakeDirectory
    \/ WriteDTO
    \/ WriteIndex
    \/ WriteClient

Spec == Init /\ [][Next]_vars

\* Two build sessions in a row on the same tree.
NextRegen == Next \/ BuildStartAgain

SpecRegen == Init /\ [][NextRegen]_vars

\* ------------------------------------------- the generators on their own

\* The run's variables while a generator function is applied on its own.
IdleRun ==
    /\ tree = [entries |-> <<>>]
    /\ badPaths = {}
    /\ pc = "idle"
    /\ yamlFilePaths = <<>>
    /\ idx = 1
    /\ stage = "read"
    /\ k = 0
    /\ files = NoFiles
    /\ dirs = {}
    /\ trace = <<>>
    /\ console = <<>>
    /\ run = 0
    /\ prevFiles = NoFiles
    /\ prevTrace = <<>>

\* The sequences of at most n elements of a set.
RECURSIVE SeqsUpTo(_, _)
SeqsUpTo(set, n) ==
    IF n = 0 THEN {<<>>}
    ELSE SeqsUpTo(set, n - 1) \cup {Append(ss, x) : ss \in {y \in SeqsUpTo(set, n - 1) : Len(y) = n - 1},
                                                    x \in set}

\* Path templates: the spec's examples, and every template of at most MaxSegs
\* segments.
Segments == { <<"/", "a">>, <<"/", "{", "x", "}">>, <<"/", "{", "y", "}">>,
              <<"/", "B", "1">>, <<"/", "{", "}">> }

PathTemplates ==
    {Flatten(segs) : segs \in SeqsUpTo(Segments, MaxSegs) \ {<<>>}}
    \cup { <<"/", "u", "s", "e", "r", "s">>,
           <<"/", "u", "s", "e", "r", "s", "/", "{", "i", "d", "}">>,
           <<"/", "a", "/", "{", "y", "}", "/", "{", "x", "}", "/", "{", "y", "}">> }

\* Keys found under a path: the five methods, other spellings of them, other
\* methods, and a key that is no method.
MethodKeys ==
    HttpMethods \cup
    { <<"G", "E", "T">>, <<"P", "o", "s", "t">>,
      <<"o", "p", "t", "i", "o", "n", "s">>, <<"h", "e", "a", "d">>,
      <<"p", "a", "r", "a", "m", "e", "t", "e", "r", "s">> }

Operations ==
    { [summary |-> <<"L", "i", "s", "t">>],
      [operationId |-> <<"l", "i", "s", "t", "U", "s", "e", "r", "s">>],
      [operationId |-> <<"g", "e", "t", "_", "u", "s", "e", "r">>],
      [operationId |-> <<>>],
      [parameters |-> <<[name |-> <<"l", "i", "m", "i", "t">>, in |-> "query"],
                        [name |-> <<"i", "d">>, in |-> "path"],
                        [name |-> <<"s", "o", "r", "t">>, in |-> "query"]>>],
      NullNode }

ClientInput(pathTemplate, entries) ==
    [fileName |-> DocBases[1],
     className |-> pascalCase(DocBases[1]) \o <<"C", "l", "i", "e", "n", "t">>,
     baseUrl |-> "",
     spec |-> [paths |-> Obj(<< <<pathTemplate, Obj(entries)>> >>)]]

\* One key under one path, alone or after a key that is skipped.
ClientInputs ==
    {ClientInput(t, << <<m, op>> >>) : t \in PathTemplates, m \in MethodKeys, op \in Operations}
    \cup {ClientInput(t, << <<(<<"h", "e", "a", "d">>), NullNode>>, <<(<<"P", "U", "T">>), op>>, <<get, op>> >>) :
             t \in {<<"/", "u", "s", "e", "r", "s">>}, op \in Operations}

\* Two paths with one key each, neither operation with an operationId.
ShortTemplates == {Flatten(segs) : segs \in SeqsUpTo(Segments, MaxSegs - 1) \ {<<>>}}

TwoPathInput(t1, m1, t2, m2) ==
    [fileName |-> DocBases[1],
     className |-> pascalCase(DocBases[1]) \o <<"C", "l", "i", "e", "n", "t">>,
     baseUrl |-> "",
     spec |-> [paths |-> Obj(<< <<t1, Obj(<< <<m1, [summary |-> <<"L", "i", "s", "t">>]>> >>)>>,
                                <<t2, Obj(<< <<m2, [summary |-> <<"L", "i", "s", "t">>]>> >>)>> >>)]]

TwoPathInputs ==
    {TwoPathInput(tt[1], get, tt[2], m2) :
        tt \in {pair \in ShortTemplates \X ShortTemplates : pair[1] # pair[2]},
        m2 \in {get, post}}

InitClient ==
    /\ IdleRun
    /\ input \in ClientInputs \cup TwoPathInputs
    /\ output = NoValue

\* generateClientClass applied to the input.
ApplyClient ==
    /\ output = NoValue
    /\ output' = generateClientClass(input)
    /\ UNCHANGED <<tree, badPaths, input>>
    /\ UNCHANGED runVars

NextClient == ApplyClient

SpecClient == InitClient /\ [][NextClient]_vars

\* Property schemas: each recognized shape, and shapes that are not.
PropertySchemas ==
    { [type |-> "string"],
      [type |-> "string", format |-> "date"],
      [enum |-> <<[isString |-> TRUE, text |-> "on"]>>],
      RefTo("A"),
      RefTo("B"),
      RefTo(""),
      [type |-> "array", items |-> RefTo("B")],
      [type |-> "array", items |-> RefTo("A")],
      [type |-> "array"],
      [type |-> "object", properties |-> Obj(<< <<"x", RefTo("C")>>, <<"y", RefTo("B")>> >>)],
      [type |-> "object"],
      [type |-> "mystery"],
      NullNode }

PropertyNames == <<"p", "q", "r", "s">>

RequiredLists == { <<"p">>, <<"q", "p">> }

WithRequired(schemas) == schemas \cup {s @@ [required |-> r] : s \in schemas, r \in RequiredLists}

\* Schemas with properties of their own.
PlainSchemas ==
    WithRequired({[type |-> "object",
                   properties |-> Obj([i \in DOMAIN ps |-> <<PropertyNames[i], ps[i]>>])] :
                     ps \in SeqsUpTo(PropertySchemas, MaxParts)})

\* The parts of an allOf: bases, inline objects, and parts that are neither.
AllOfParts ==
    { RefTo("B"), RefTo("A"), RefTo("B") @@ [required |-> <<"p">>],
      [type |-> "object", required |-> <<"p">>],
      [properties |-> Obj(<< <<"q", [type |-> "string"]>> >>), required |-> <<"q">>],
      NullNode }
    \cup WithRequired({[type |-> "object", properties |-> Obj(<< <<n, t>> >>)] :
                          n \in {"p", "q"}, t \in {[type |-> "string"], RefTo("B")}})

AllOfSchemas ==
    WithRequired({[allOf |-> parts] : parts \in SeqsUpTo(AllOfParts, MaxParts)}
                 \cup {[allOf |-> parts, properties |-> Obj(<< <<"r", RefTo("C")>> >>)] :
                          parts \in SeqsUpTo(AllOfParts, 1)})

DtoInputs ==
    {[name |-> "A", schema |-> s] : s \in PlainSchemas \cup AllOfSchemas \cup {RoleSchema, NullNode}}

InitDto ==
    /\ IdleRun
    /\ input \in DtoInputs
    /\ output = NoValue

\* generateDTOType applied to the input.
ApplyDto ==
    /\ output = NoValue
    /\ output' = generateDTOType(input.name, input.schema)
    /\ UNCHANGED <<tree, badPaths, input>>
    /\ UNCHANGED runVars

NextDto == ApplyDto

SpecDto == InitDto /\ [][NextDto]_vars

\* =================================================================== claims

IsPrefix(s, t) == Len(s) <= Len(t) /\ SubSeq(t, 1, Len(s)) = s

\* The directories of a tree, the one at dir included.
RECURSIVE DirsUnder(_, _)
DirsUnder(dir, node) ==
    {dir} \cup UNION {DirsUnder(PathJoin(dir, node.entries[i].name), node.entries[i].node) :
                        i \in {j \in DOMAIN node.entries : node.entries[j].isDirectory}}

\* Some directory the scan has to list cannot be listed.
ScanFails == \E d \in DirsUnder(sourceDir, tree) : d \in badPaths

\* The files one document is to produce, in order: a DTO file per schema in
\* the schemas' order, then the index (when there are schemas), then the client.
ExpectedPaths(file) ==
    LET schemas == IF SpecOf(file).ok THEN AllSchemas(SpecOf(file).value) ELSE <<>>
    IN  [i \in DOMAIN schemas |-> DtoPath(file, schemas[i][1])]
        \o (IF Len(schemas) > 0 THEN <<IndexPath(file)>> ELSE <<>>)
        \o <<ClientPath(file)>>

\* A document none of whose steps fails: it is read and parsed, its
\* directories are made, every schema and the client are generated, and the
\* file system takes every write.
Sound(file) ==
    /\ file.path \notin badPaths
    /\ SpecOf(file).ok
    /\ ~IsNull(SpecOf(file).value)
    /\ generatedDir(file) \notin badPaths
    /\ dtoDir(file) \notin badPaths
    /\ LET schemas == AllSchemas(SpecOf(file).value)
       IN  \A i \in DOMAIN schemas : generateDTOType(schemas[i][1], schemas[i][2]).ok
    /\ generateClientClass(FileInfo(file)).ok
    /\ \A i \in DOMAIN ExpectedPaths(file) : ExpectedPaths(file)[i] \notin badPaths

\* The paths document i wrote, in order.
WrittenBy(i) ==
    LET isWrite(call) == call.op = "writeFile" /\ call.ok /\ call.doc = i
        writes == SelectSeq(trace, isWrite)
    IN  [n \in DOMAIN writes |-> writes[n].path]

\* Document i was given up: its error was reported.
Reported(i) ==
    \E n \in DOMAIN console : console[n].level = "error" /\ console[n].about = yamlFilePaths[i].path

\* C1: per-document isolation. When the run is over after a scan that found
\* documents, every document was taken up by the loop, every document none of
\* whose steps fails has written all its files (its DTO files, its index and
\* its client), whichever other documents failed, and the run ended with
\* the loop's closing report rather than at the first failing document.
C1_PerDocumentIsolation ==
    (pc = "done" /\ Len(yamlFilePaths) > 0) =>
        /\ idx = Len(yamlFilePaths) + 1
        /\ console[Len(console)].text = "Generation terminee"
        /\ \A i \in DOMAIN yamlFilePaths :
              /\ \E n \in DOMAIN trace : trace[n].op = "readFile" /\ trace[n].doc = i
              /\ Sound(yamlFilePaths[i]) => WrittenBy(i) = ExpectedPaths(yamlFilePaths[i])

\* A run is over in which a document failed and a later one wrote its client.
C1_Witness ==
    /\ pc = "done"
    /\ \E i, j \in DOMAIN yamlFilePaths :
          /\ i < j
          /\ ~Sound(yamlFilePaths[i]) /\ Reported(i)
          /\ Sound(yamlFilePaths[j])
          /\ WrittenBy(j) = ExpectedPaths(yamlFilePaths[j])

\* A document with a malformed schema: a null schema entry, or a schema with
\* a null property, and nothing else that fails.
HasMalformedSchema(file) ==
    /\ SpecOf(file).ok /\ ~IsNull(SpecOf(file).value)
    /\ LET schemas == AllSchemas(SpecOf(file).value)
       IN  \E i \in DOMAIN schemas :
              \/ IsNull(schemas[i][2])
              \/ /\ HasNode(schemas[i][2], "properties")
                 /\ \E n \in DOMAIN schemas[i][2].properties.entries :
                       IsNull(schemas[i][2].properties.entries[n][2])

NoPathFails(file) ==
    /\ file.path \notin badPaths
    /\ generatedDir(file) \notin badPaths
    /\ dtoDir(file) \notin badPaths
    /\ \A i \in DOMAIN ExpectedPaths(file) : ExpectedPaths(file)[i] \notin badPaths

\* C2: a malformed schema or property does not abort DTO emission. When the
\* run is over, a document with a null schema entry or a null property (and
\* paths, and no file system failure) has written a DTO file for every one
\* of its schemas, its index file and its client file.
C2_MalformedSchemaDegrades ==
    pc = "done" =>
        \A i \in DOMAIN yamlFilePaths :
            (HasMalformedSchema(yamlFilePaths[i]) /\ NoPathFails(yamlFilePaths[i])
             /\ generateClientClass(FileInfo(yamlFilePaths[i])).ok)
            => WrittenBy(i) = ExpectedPaths(yamlFilePaths[i])

\* C9: a failing scan is fatal and reported once. Once the hook has run on a
\* tree one of whose directories cannot be listed, the run is over, having
\* read no document, created no directory and written no file, and having
\* reported exactly one error.
C9_ScanFailureFatal ==
    (pc # "idle" /\ ScanFails) =>
        /\ pc = "done"
        /\ yamlFilePaths = <<>>
        /\ trace = <<>>
        /\ dirs = {}
        /\ files = NoFiles
        /\ Len(console) = 1
        /\ console[1].level = "error"

\* The hook has run on a tree whose root holds a document and one of whose
\* subdirectories cannot be listed.
C9_Witness ==
    /\ pc = "done"
    /\ ScanFails
    /\ sourceDir \notin badPaths
    /\ \E i \in DOMAIN tree.entries : tree.entries[i].isFile /\ tree.entries[i].ext = ".yml"

\* C10: writes are ordered and never interleaved across documents. The file
\* system calls follow the scan order of the documents; what a document has
\* written is a prefix of its DTO files in schema order, then its index,
\* then its client; and a call for a document is made only when every
\* earlier document has written its client or has been given up.
C10_WritesOrdered ==
    /\ \A a, b \in DOMAIN trace : a < b => trace[a].doc <= trace[b].doc
    /\ \A i \in DOMAIN yamlFilePaths : IsPrefix(WrittenBy(i), ExpectedPaths(yamlFilePaths[i]))
    /\ \A a \in DOMAIN trace :
          \A i \in 1..(trace[a].doc - 1) :
              \/ Reported(i)
              \/ /\ WrittenBy(i) # <<>>
                 /\ WrittenBy(i)[Len(WrittenBy(i))] = ClientPath(yamlFilePaths[i])

\* Two documents have each written two DTO files, an index and a client.
C10_Witness ==
    /\ pc = "done"
    /\ Len(yamlFilePaths) >= 2
    /\ \A i \in 1..2 : /\ WrittenBy(i) = ExpectedPaths(yamlFilePaths[i])
                       /\ Len(WrittenBy(i)) = 4

\* C8: regeneration is idempotent and deterministic. When a second run on
\* the same tree is over, every file has the content the first run left, and
\* the second run made the same file system calls, with the same content, in
\* the same order, and reported the same.
C8_RegenerationIdempotent ==
    (pc = "done" /\ run = 2) =>
        /\ files = prevFiles
        /\ trace = prevTrace

\* A second run is over that wrote the files of two documents again, one
\* of which stopped at the file system's refusal of a write.
C8_Witness ==
    /\ pc = "done" /\ run = 2
    /\ Len(yamlFilePaths) >= 2
    /\ \E i, j \in DOMAIN yamlFilePaths :
          /\ WrittenBy(i) = ExpectedPaths(yamlFilePaths[i]) /\ Len(WrittenBy(i)) = 4
          /\ Reported(j) /\ WrittenBy(j) # <<>>

\* The entries <<pathTemplate, key, operation>> of the input's paths, in order.
InputEntries ==
    LET paths == input.spec.paths.entries
    IN  Flatten([i \in DOMAIN paths |->
                   [n \in DOMAIN paths[i][2].entries |->
                       <<paths[i][1], paths[i][2].entries[n][1], paths[i][2].entries[n][2]>>]])

ClientGenerated == output # NoValue /\ output.ok

\* A sequence's elements in first-occurrence order, each once.
RECURSIVE Distinct(_)
Distinct(seq) ==
    IF seq = <<>> THEN <<>>
    ELSE LET init == Distinct(SubSeq(seq, 1, Len(seq) - 1))
             last == seq[Len(seq)]
         IN  IF last \in Range(init) THEN init ELSE Append(init, last)

\* The path parameters of a method's signature, in order.
SignaturePathParams(method) ==
    LET isPathParam(p) == p.type = "string | number"
        ps == SelectSeq(method.signature, isPathParam)
    IN  [i \in DOMAIN ps |-> ps[i].param]

\* C3: the path parameters of every generated method are the {token} names
\* of its path template in first-occurrence order, each distinct name once.
C3_PathParamsDistinct ==
    ClientGenerated =>
        \A i \in DOMAIN output.value.methods :
            LET method == output.value.methods[i]
            IN  SignaturePathParams(method) = Distinct(extractPathParameters(method.pathTemplate))

\* The key is one of the five methods in some spelling of upper and lower case.
LowerCaseIsMethod(key) ==
    \E m \in HttpMethods : Len(m) = Len(key) /\ \A i \in DOMAIN m : ToLowerChar(key[i]) = m[i]
\* The key is one of the five lowercase strings.
ExactlyMethod(key) == key \in {get, post, put, delete, patch}

\* The <<pathTemplate, key>> pairs of some entries of the input.
PairsOf(entries) == [i \in DOMAIN entries |-> <<entries[i][1], entries[i][2]>>]

ClaimedIdentifier(pathTemplate, operation) ==
    IF Has(operation, "operationId") /\ operation.operationId # <<>>
    THEN operation.operationId
    ELSE StripNonAlnum(ReplaceTokensBy(pathTemplate, 1))

\* C5: the name of every generated method is the lowercase HTTP keyword
\* followed by the Pascal-cased operation identifier.
C5_MethodNames ==
    ClientGenerated =>
        LET made == SelectSeq(InputEntries, LAMBDA e : LowerCaseIsMethod(e[2]))
        IN  \A i \in DOMAIN made :
                i \in DOMAIN output.value.methods =>
                    output.value.methods[i].name =
                        toLowerCase(made[i][2]) \o pascalCase(ClaimedIdentifier(made[i][1], made[i][3]))

DtoGenerated == output # NoValue /\ output.ok /\ output.value.kind = "interface"

\* The schema names a node refers to by $ref: itself, through the items of an
\* array, or through the properties of an inline object.
RECURSIVE ReferencedBy(_)
ReferencedBy(node) ==
    IF IsNull(node) THEN {}
    ELSE (IF HasRef(node) THEN {RefName(node["$ref"])} \ {""} ELSE {})
         \cup (IF Has(node, "type") /\ node.type = "array" /\ HasNode(node, "items")
               THEN ReferencedBy(node.items) ELSE {})
         \cup (IF Has(node, "type") /\ node.type = "object" /\ HasNode(node, "properties")
               THEN UNION {ReferencedBy(node.properties.entries[i][2]) :
                              i \in DOMAIN node.properties.entries}
               ELSE {})

\* The names a schema refers to through its properties and its allOf bases.
ReferencedNames(schema) ==
    UNION {ReferencedBy(PropertiesOf(schema)[i][2]) : i \in DOMAIN PropertiesOf(schema)}
    \cup (IF Has(schema, "allOf")
          THEN {RefName(schema.allOf[i]["$ref"]) : i \in {j \in DOMAIN schema.allOf : HasRef(schema.allOf[j])}} \ {""}
          ELSE {})

\* C6: the import lines of a non-enum schema's DTO file are one line per
\* distinct schema name it refers to through its properties, nested inline
\* objects, array items or allOf bases, and never a line for its own name.
C6_ImportsExact ==
    DtoGenerated =>
        /\ Range(output.value.imports) = ReferencedNames(input.schema) \ {input.name}
        /\ Cardinality(Range(output.value.imports)) = Len(output.value.imports)

\* The allOf has a $ref part and an inline object part.
IsMixedAllOf(schema) ==
    /\ Has(schema, "allOf")
    /\ \E i \in DOMAIN schema.allOf : HasRef(schema.allOf[i])
    /\ \E i \in DOMAIN schema.allOf :
          ~HasRef(schema.allOf[i]) /\ Has(schema.allOf[i], "type") /\ schema.allOf[i].type = "object"
          /\ HasNode(schema.allOf[i], "properties")

\* The inline object parts of an allOf: no $ref, type object, and properties.
InlineParts(schema) ==
    {i \in DOMAIN schema.allOf :
        /\ ~HasRef(schema.allOf[i])
        /\ Has(schema.allOf[i], "type") /\ schema.allOf[i].type = "object"
        /\ HasNode(schema.allOf[i], "properties")}

\* The inline part a property of the generated type comes from: the last one
\* that declares it.
ContributingPart(schema, propName) ==
    LET declares(i) == \E n \in DOMAIN schema.allOf[i].properties.entries :
                           schema.allOf[i].properties.entries[n][1] = propName
    IN  schema.allOf[CHOOSE i \in InlineParts(schema) :
                        declares(i) /\ \A j \in InlineParts(schema) : declares(j) => j <= i]

OwnRequired(o) == IF "required" \in DOMAIN o THEN {o.required[i] : i \in DOMAIN o.required} ELSE {}

\* C7 as claimed: in an allOf that mixes $ref parts and inline parts, a
\* property is emitted without the optional marker exactly when its name is
\* in the required list of the inline part it comes from.
C7_OwnPartRequiredOnly ==
    (DtoGenerated /\ IsMixedAllOf(input.schema)) =>
        \A i \in DOMAIN output.value.props :
            LET prop == output.value.props[i]
            IN  ~prop.optional <=> prop.name \in OwnRequired(ContributingPart(input.schema, prop.name))

\* C7 as amended: in an allOf, a property is emitted without the optional
\* marker exactly when its name is in the required list of the enclosing
\* schema or of some inline object part; the required list of a part with a
\* $ref, or of a part that is no inline object, changes nothing.
C7_RequiredIsUnion ==
    (DtoGenerated /\ Has(input.schema, "allOf")) =>
        \A i \in DOMAIN output.value.props :
            LET prop == output.value.props[i]
            IN  ~prop.optional <=>
                    \/ prop.name \in OwnRequired(input.schema)
                    \/ \E n \in InlineParts(input.schema) : prop.name \in OwnRequired(input.schema.allOf[n])

\* A type was generated from an allOf that mixes a $ref part and an inline
\* part, and a property is required that the part it comes from does not list.
C7_Witness ==
    /\ DtoGenerated
    /\ IsMixedAllOf(input.schema)
    /\ \E i \in DOMAIN output.value.props :
          /\ ~output.value.props[i].optional
          /\ output.value.props[i].name \notin
                OwnRequired(ContributingPart(input.schema, output.value.props[i].name))

\* C11: within one generated client class method names are unique: two
\* distinct (pathTemplate, method) pairs that each produce a method produce
\* different method names, also when both names are derived from the paths.
C11_MethodNamesUnique ==
    ClientGenerated =>
        \A i, j \in DOMAIN output.value.methods :
            i # j => output.value.methods[i].name # output.value.methods[j].name

====
